---- MODULE Spec2Model ----
(***************************************************************************)
(* ddu-source-tri_source: Source.gather of                                 *)
(* denops/@ddu-sources/tri_source.ts as a state machine.                   *)
(*                                                                         *)
(* One run of gather() is modelled.  start() is a single async function;   *)
(* every action below resumes it at one of its awaits and runs it up to    *)
(* the next await (or to its end), so the synchronous code between two     *)
(* awaits is one atomic step.  The consumer's cancel() may run between any *)
(* two such steps.                                                         *)
(*                                                                         *)
(* Strings that the code inspects character by character (paths) are       *)
(* sequences of one-character strings.                                     *)
(***************************************************************************)
EXTENDS Integers, Sequences, FiniteSets, TLC

\* ------------------------------------------------------------------ bounds
\* getbufinfo returns at most MaxBufs buffers
MaxBufs == 2
\* the MRU list holds at most MaxMr paths
MaxMr == 2
\* at most MaxFaults calls into the environment fail in one run
MaxFaults == 1
\* chunkSize ranges over 1..MaxChunk
MaxChunk == 2
\* the operating system resolves at most MaxLinks symbolic links in one path
\* and fails with ELOOP beyond that (40 on Linux)
MaxLinks == 2

\* the factor by which the enqueue threshold grows after the first emission
GrowthFactor == 10

\* ------------------------------------------------------------------- paths
pEmpty == <<>>
Root == <<"/", "r">>
pA == <<"/", "r", "/", "a">>
pASlash == <<"/", "r", "/", "a", "/">>

\* p.replace(/\/+$/, "")
RECURSIVE normalizePath(_)
normalizePath(p) ==
    IF Len(p) > 0 /\ p[Len(p)] = "/"
    THEN normalizePath(SubSeq(p, 1, Len(p) - 1))
    ELSE p

\* join(dir, entry.name) for a dir without trailing separator and a plain name
join(dir, name) == dir \o <<"/">> \o name

\* String.prototype.includes
includes(s, sub) ==
    \E i \in 0..(Len(s) - Len(sub)) : SubSeq(s, i + 1, i + Len(sub)) = sub

\* ------------------------------------------------------------------- items
\* makeItem: display is the "[tag] " prefix when showPrefix, else undefined.
\* word and highlights are functions of (tag, path) and are not carried.
\* tag records the source that built the item.
makeItem(path, tag, showPrefix, isDirectory) ==
    [path |-> path,
     isDirectory |-> isDirectory,
     display |-> IF showPrefix THEN tag ELSE "undefined",
     tag |-> tag]

\* the item literal pushed by walkFiles.inner
recItem(abspath) ==
    [path |-> abspath, isDirectory |-> FALSE, display |-> "undefined", tag |-> "rec"]

\* one kind that lists files and one that lists directories
MrKinds == {"mru", "mrd"}
isDirKinds == {"mrr", "mrd"}

\* ------------------------------------------------------------ error values
TypeErrorV == [isError |-> TRUE, name |-> "TypeError"]
RpcErrorV == [isError |-> TRUE, name |-> "Error"]
FsErrorV == [isError |-> TRUE, name |-> "NotFound"]
NoReason == [isError |-> FALSE, name |-> "unset"]

\* AbortController.abort(reason): signal.reason is the reason given, or an
\* "AbortError" DOMException when the reason is undefined
CancelReasons == {"undefined", "QuitAbortReason", "string"}
abortReason(r) ==
    CASE r = "undefined" -> [isError |-> TRUE, name |-> "AbortError"]
      [] r = "QuitAbortReason" -> [isError |-> TRUE, name |-> "QuitAbortReason"]
      [] OTHER -> [isError |-> FALSE, name |-> "string"]

\* e instanceof Error && e.name.includes("AbortReason"), over the names above
IsAbortReason(e) == e.isError /\ e.name \in {"QuitAbortReason", "RefreshAbortReason"}

\* -------------------------------------------------------------- filesystem
\* A tree maps the real path of each directory to its entries in listing order.
\* kind: "file", "dir" or "link"; a link has the real path and kind of its target.
File(n) == [name |-> n, kind |-> "file", target |-> <<>>, tkind |-> "none"]
Dir(n) == [name |-> n, kind |-> "dir", target |-> <<>>, tkind |-> "none"]
Link(n, t, k) == [name |-> n, kind |-> "link", target |-> t, tkind |-> k]

IgnoredDirectories == {<<".", "g">>}

\* a file and a directory holding a file
Tree1 ==
    (Root :> << File(<<"a">>), Dir(<<"d">>) >>) @@
    (join(Root, <<"d">>) :> << File(<<"b">>) >>)

\* files before and after two sibling directories
Tree2 ==
    (Root :> << File(<<"a">>), Dir(<<"d">>), Dir(<<"s">>), File(<<"e">>) >>) @@
    (join(Root, <<"d">>) :> << File(<<"b">>) >>) @@
    (join(Root, <<"s">>) :> << File(<<"c">>) >>)

\* an ignored directory and a link back to the root
Tree3 ==
    (Root :> << File(<<"a">>), Dir(<<".", "g">>), Link(<<"l">>, Root, "dir") >>) @@
    (join(Root, <<".", "g">>) :> << File(<<"c">>) >>)

\* a directory holding a link to itself, and a second link to that directory
Tree4 ==
    (Root :> << Dir(<<"a">>), Link(<<"b">>, pA, "dir") >>) @@
    (pA :> << File(<<"f">>), Link(<<"u">>, pA, "dir") >>)

\* an ignored directory one level down, between files
Tree5 ==
    (Root :> << File(<<"a">>), Dir(<<"d">>) >>) @@
    (join(Root, <<"d">>) :> << Dir(<<".", "g">>), File(<<"b">>) >>) @@
    (join(join(Root, <<"d">>), <<".", "g">>) :> << File(<<"c">>) >>)

\* a link to a directory outside the root whose real path, /d, occurs inside
\* the link's own path /r/d/l without being an ancestor of it
pOutside == <<"/", "d">>
Tree6 ==
    (Root :> << Dir(<<"d">>) >>) @@
    (join(Root, <<"d">>) :> << Link(<<"l">>, pOutside, "dir") >>) @@
    (pOutside :> << File(<<"c">>) >>)

\* one directory without subdirectories holding FlatFiles regular files, enough
\* for a threshold flush after the first emission at every chunkSize
FlatFiles == (GrowthFactor + 1) * MaxChunk + 1
FlatTree ==
    Root :> [i \in 1..FlatFiles |->
                File(IF i = 1 THEN <<"a">> ELSE [j \in 1..(i - 1) |-> "x"])]

\* the flat directory comes last
Trees == <<Tree1, Tree2, Tree3, Tree4, Tree5, Tree6, FlatTree>>

\* readStat's catch: return null
Null == [ok |-> FALSE, isDirectory |-> FALSE, isSymlink |-> FALSE]

\* await Deno.lstat(path): the entry itself; vanished: the call rejects
lstat(e, vanished) ==
    IF vanished THEN Null
    ELSE [ok |-> TRUE, isDirectory |-> e.kind = "dir", isSymlink |-> e.kind = "link"]

\* { ...(await Deno.stat(path)), isSymlink: true }: the target of a link that
\* lies below links other links; the call rejects when failed, when the
\* target is missing, or when more than MaxLinks links have to be resolved
stat(e, links, failed) ==
    IF failed \/ e.tkind = "none" \/ links + 1 > MaxLinks THEN Null
    ELSE [ok |-> TRUE, isDirectory |-> e.tkind = "dir", isSymlink |-> TRUE]

\* ------------------------------------------------------------------- state
VARIABLES
    pc,            \* the await start() is suspended at: "init" (gather not yet
                   \* called), "getbufinfo", "getbufvar", "dispatch", "readDir",
                   \* "lstat", "stat", "realPath", "endOfDir" (readDir has
                   \* reported the end of a listing, inner has not resumed),
                   \* "walkEnd" (the root's inner has finished, start() has
                   \* not left its loop), "rethrow" (a failure of the walk is
                   \* on its way up to the catch block of start()), or
                   \* "done" (start() has returned)
    params,        \* args.sourceParams (fixed for the run) and the walked tree
    seen,          \* the dedup registry
    delivered,     \* the batches accepted by controller.enqueue, in order
    diag,          \* what console.error was called with, in order
    streamState,   \* "readable", or "closed" once the consumer has cancelled
    closeState,    \* controller.close(): "open", "requested", or "threw"
    aborted,       \* abortController.signal.aborted
    reason,        \* abortController.signal.reason
    sorted,        \* gatherBuffer: the buffers the loop has still to visit
    bufItems,      \* gatherBuffer: items
    stack,         \* walkFiles: the suspended inner(dir) generators, root first
    pendingItems,  \* start: pendingItems
    enqueueSize,   \* start: enqueueSize
    produced,      \* history: the paths each adapter put forward, before dedup
    yielded,       \* history: the paths walkFiles has yielded
    denied,        \* history: directories whose opening failed with PermissionDenied
    completed,     \* history: directories whose listing was read to its end
    invoked,       \* history: adapters the aggregator has called
    late,          \* history: adapters called when the signal was already set
    faults         \* history: number of failed environment calls

vars == <<pc, params, seen, delivered, diag, streamState, closeState, aborted,
          reason, sorted, bufItems, stack, pendingItems, enqueueSize, produced,
          yielded, denied, completed, invoked, late, faults>>

\* the current state as one record, and its assignment to the next state
S == [pc |-> pc, seen |-> seen, delivered |-> delivered, diag |-> diag,
      streamState |-> streamState, closeState |-> closeState,
      aborted |-> aborted, reason |-> reason, sorted |-> sorted,
      bufItems |-> bufItems, stack |-> stack, pendingItems |-> pendingItems,
      enqueueSize |-> enqueueSize, produced |-> produced, yielded |-> yielded,
      denied |-> denied, completed |-> completed, invoked |-> invoked,
      late |-> late, faults |-> faults]

Set(n) ==
    /\ pc' = n.pc
    /\ seen' = n.seen
    /\ delivered' = n.delivered
    /\ diag' = n.diag
    /\ streamState' = n.streamState
    /\ closeState' = n.closeState
    /\ aborted' = n.aborted
    /\ reason' = n.reason
    /\ sorted' = n.sorted
    /\ bufItems' = n.bufItems
    /\ stack' = n.stack
    /\ pendingItems' = n.pendingItems
    /\ enqueueSize' = n.enqueueSize
    /\ produced' = n.produced
    /\ yielded' = n.yielded
    /\ denied' = n.denied
    /\ completed' = n.completed
    /\ invoked' = n.invoked
    /\ late' = n.late
    /\ faults' = n.faults
    /\ UNCHANGED params

fs == Trees[params.tree]

\* ----------------------------------------------------- stream and try/catch
\* mutant: a cancelled stream still accepts batches
CanCloseOrEnqueue_ignoreCancel(s) == s.closeState = "open"

\* ReadableStreamDefaultControllerCanCloseOrEnqueue: enqueue() and close()
\* throw a TypeError once the stream was cancelled or close was requested
CanCloseOrEnqueue(s) == s.streamState = "readable" /\ s.closeState = "open"

\* mutant: a batch is put in front of the batches already delivered
enqueue_front(s, items) == [s EXCEPT !.delivered = <<items>> \o @]

enqueue(s, items) == [s EXCEPT !.delivered = Append(@, items)]

\* mutant: start() ends without closing the stream
Finally_noClose(s) == [s EXCEPT !.pc = "done"]

\* finally { controller.close() }
Finally(s) ==
    [s EXCEPT !.pc = "done",
              !.closeState = IF CanCloseOrEnqueue(s) THEN "requested" ELSE "threw"]

\* mutant: the catch block swallows every failure
Reported_never(e) == FALSE

\* which caught values the catch block of start() passes to console.error
Reported(e) == ~IsAbortReason(e)

\* catch (e) { if (abort reason) ignore else console.error(e) } finally { ... }
Catch(s, e) ==
    Finally(IF Reported(e) THEN [s EXCEPT !.diag = Append(@, e.name)] ELSE s)

\* start() has left its try block
Ended(s) == s.pc = "done"

\* one more failed environment call
Fault(s) == [s EXCEPT !.faults = @ + 1]

\* ------------------------------------------------- start(): the walk (step 3)
\* the dedup test of the filter callback: keep an item without a path, drop
\* one whose key is in the registry
recKeep(actionPath, sn) ==
    actionPath = pEmpty \/ normalizePath(actionPath) \notin sn

\* chunk.filter(...) with dedup on: the kept items and the registry afterwards
RECURSIVE dedupFilter(_, _)
dedupFilter(chunk, sn) ==
    IF chunk = <<>> THEN [items |-> <<>>, seen |-> sn]
    ELSE LET item == Head(chunk)
             keep == recKeep(item.path, sn)
             sn1 == IF item.path # pEmpty /\ keep
                    THEN sn \cup {normalizePath(item.path)} ELSE sn
             rest == dedupFilter(Tail(chunk), sn1)
         IN  [items |-> IF keep THEN <<item>> \o rest.items ELSE rest.items,
              seen |-> rest.seen]

\* const filtered = dedup ? chunk.filter(...) : chunk
recFilter(chunk, sn, dedup) ==
    IF dedup THEN dedupFilter(chunk, sn) ELSE [items |-> chunk, seen |-> sn]

\* the threshold after an emission
nextEnqueueSize(chunkSize) == GrowthFactor * chunkSize

\* mutant: the buffered items are flushed after every chunk
flushNow_always(pend, size) == TRUE

\* whether the buffered items are flushed
flushNow(pend, size) == Len(pend) >= size

\* the body of the for await loop of start(), for one chunk of walkFiles
Consume(s, chunk) ==
    LET f == recFilter(chunk, s.seen, params.dedup)
        shown == IF params.showSourcePrefix
                 THEN [i \in DOMAIN f.items |-> [f.items[i] EXCEPT !.display = "rec"]]
                 ELSE f.items
        pend == s.pendingItems \o shown
        s1 == [s EXCEPT !.seen = f.seen,
                        !.yielded = @ \o [i \in DOMAIN chunk |-> chunk[i].path],
                        !.produced.rec = @ \o [i \in DOMAIN chunk |-> chunk[i].path],
                        !.pendingItems = pend]
    IN  IF flushNow(pend, s.enqueueSize)
        THEN LET s2 == [s1 EXCEPT !.enqueueSize = nextEnqueueSize(params.chunkSize)]
             IN  IF CanCloseOrEnqueue(s2)
                 THEN [enqueue(s2, pend) EXCEPT !.pendingItems = <<>>]
                 ELSE Catch(s2, TypeErrorV)
        ELSE s1

\* after the for await loop: the unconditional flush, then the end of start()
FinishWalk(s) ==
    IF Len(s.pendingItems) > 0
    THEN IF CanCloseOrEnqueue(s)
         THEN Finally([enqueue(s, s.pendingItems) EXCEPT !.pendingItems = <<>>])
         ELSE Catch(s, TypeErrorV)
    ELSE Finally(s)

\* ------------------------------------------------------ walkFiles.inner
Top(s) == s.stack[Len(s.stack)]
SetTop(s, f) == [s EXCEPT !.stack[Len(s.stack)] = f]
\* dir is the path inner was called with, real the directory it names, links
\* the number of symbolic links among the components of dir
Frame(dir, real, links) ==
    [dir |-> dir, real |-> real, links |-> links, idx |-> 0, chunk |-> <<>>]

\* inner(dir) returns: its caller resumes at its own readDir; after the root's
\* inner, walkFiles returns to the for await of start() over several awaits
Return(s) ==
    LET s1 == [s EXCEPT !.stack = SubSeq(@, 1, Len(@) - 1)]
    IN  [s1 EXCEPT !.pc = IF s1.stack = <<>> THEN "walkEnd" ELSE "readDir"]

\* mutant: no directory is skipped by name
isIgnored_never(name) == FALSE

\* whether a directory entry is skipped by name
isIgnored(name) == name \in IgnoredDirectories

\* mutant: PermissionDenied is rethrown like any other failure
onPermissionDenied_rethrow(s) == Catch(s, FsErrorV)

\* what inner's catch block does with a PermissionDenied raised by readDir
onPermissionDenied(s) == Return(s)

\* mutant: the leftover chunk is dropped when the listing is exhausted
endOfDir_dropLeftover(s) ==
    Return([s EXCEPT !.completed = @ \cup {Top(s).dir}])

\* inner resumes after the end of its listing: the leftover chunk is yielded
\* to the loop body of start(), then inner returns.  The signal is not looked
\* at here: abortable has already returned.
endOfDir(s) ==
    LET f == Top(s)
        s1 == IF Len(f.chunk) > 0 THEN Consume(s, f.chunk) ELSE s
        s2 == [s1 EXCEPT !.completed = @ \cup {f.dir}]
    IN  IF Ended(s1) THEN s1 ELSE Return(s2)

\* throw e in inner's catch block: the failure travels through the yield*
\* chain and the for await of start() before the catch block of start() runs
rethrow(s) == [Fault(s) EXCEPT !.pc = "rethrow"]

\* abortable(Deno.readDir(dir), signal) settles.  A signal set while readDir
\* was pending has already rejected the race with the reason, whatever readDir
\* does afterwards; after that rejection the stream is cancelled and nothing
\* the consumer does can change the outcome, so catch and finally follow here.
\* outcome: "ok", "PermissionDenied" or "Other" (any other failure of readDir)
readDirStep(s, outcome) ==
    LET f == Top(s)
    IN  IF s.aborted THEN Catch(s, s.reason)
        ELSE IF outcome = "PermissionDenied"
        THEN onPermissionDenied(
                 [Fault(s) EXCEPT !.denied = IF f.idx = 0 THEN @ \cup {f.dir} ELSE @])
        ELSE IF outcome = "Other" THEN rethrow(s)
        ELSE IF f.idx < Len(fs[f.real])
        THEN [SetTop(s, [f EXCEPT !.idx = @ + 1]) EXCEPT !.pc = "lstat"]
        ELSE [s EXCEPT !.pc = "endOfDir"]

\* the symlink-loop test
isLoop(st, abspath, realPath) ==
    st.isSymlink /\ st.isDirectory /\ includes(abspath, realPath)

\* the first next() of abortable(Deno.readDir(dir), signal): with the signal
\* already set it throws the reason before readDir is asked for anything
abortable(s) ==
    IF s.aborted THEN Catch(s, s.reason) ELSE [s EXCEPT !.pc = "readDir"]

\* yield* inner(abspath): the generator of a subdirectory starts
descend(s, real, links) ==
    LET f == Top(s)
        e == fs[f.real][f.idx]
    IN  abortable([s EXCEPT !.stack =
                       Append(@, Frame(join(f.dir, e.name), real, links))])

\* the loop body after readStat has returned st, up to its next await
entryStep(s, st) ==
    LET f == Top(s)
        e == fs[f.real][f.idx]
        abspath == join(f.dir, e.name)
        next == [s EXCEPT !.pc = "readDir"]
    IN  IF ~st.ok THEN next
        ELSE IF ~st.isDirectory
        THEN LET chunk1 == Append(f.chunk, recItem(abspath))
             IN  IF Len(chunk1) >= params.chunkSize
                 THEN LET s1 == Consume(s, chunk1)
                      IN  IF Ended(s1) THEN s1
                          ELSE [SetTop(s1, [f EXCEPT !.chunk = <<>>])
                                    EXCEPT !.pc = "readDir"]
                 ELSE SetTop(next, [f EXCEPT !.chunk = chunk1])
        ELSE IF isIgnored(e.name) THEN next
        ELSE IF st.isSymlink /\ st.isDirectory THEN [s EXCEPT !.pc = "realPath"]
        ELSE descend(s, join(f.real, e.name), f.links)

\* Deno.lstat settles: a link is followed by Deno.stat when expansion is on
lstatStep(s, vanished) ==
    LET e == fs[Top(s).real][Top(s).idx]
        st == lstat(e, vanished)
        s0 == IF vanished THEN Fault(s) ELSE s
    IN  IF st.ok /\ st.isSymlink /\ params.expandSymbolicLink
        THEN [s0 EXCEPT !.pc = "stat"]
        ELSE entryStep(s0, st)

\* Deno.stat settles
statStep(s, failed) ==
    LET f == Top(s)
    IN  entryStep(IF failed THEN Fault(s) ELSE s, stat(fs[f.real][f.idx], f.links, failed))

\* Deno.realPath settles.  outcome: "ok", "PermissionDenied" (inner's catch
\* returns, giving up the directory and its chunk) or "Other" (rethrown)
realPathStep(s, outcome) ==
    LET f == Top(s)
        e == fs[f.real][f.idx]
        abspath == join(f.dir, e.name)
        st == stat(e, f.links, FALSE)
    IN  IF outcome = "PermissionDenied" THEN onPermissionDenied(Fault(s))
        ELSE IF outcome = "Other" THEN rethrow(s)
        ELSE IF isLoop(st, abspath, e.target) THEN [s EXCEPT !.pc = "readDir"]
        ELSE descend(s, e.target, f.links + 1)

\* ------------------------------------------------- start(): steps 3, 2, 1
Call(s, adapter) ==
    [s EXCEPT !.invoked = @ \cup {adapter},
              !.late = IF s.aborted THEN @ \cup {adapter} ELSE @]

\* if (enableFileRec) { ... for await (const chunk of walkFiles(...)) }
StartRec(s) ==
    IF params.enableFileRec
    THEN abortable([Call(s, "rec") EXCEPT !.stack = <<Frame(Root, Root, 0)>>,
                                          !.enqueueSize = params.chunkSize,
                                          !.pendingItems = <<>>])
    ELSE Finally(s)

\* if (enableMr) { await gatherMr(...) }
StartMr(s) ==
    IF params.enableMr THEN [Call(s, "mr") EXCEPT !.pc = "dispatch"]
    ELSE StartRec(s)

\* if (items.length > 0) controller.enqueue(items)
Forward(s, items) ==
    IF Len(items) > 0
    THEN IF CanCloseOrEnqueue(s) THEN enqueue(s, items)
         ELSE Catch(s, TypeErrorV)
    ELSE s

\* mutant: gatherMr never consults the registry
mrKeep_noRegistry(norm, sn, dedup) == TRUE

\* gatherMr's dedup test
mrKeep(norm, sn, dedup) == ~dedup \/ norm \notin sn

\* the for loop of gatherMr over result
RECURSIVE mrLoop(_, _, _)
mrLoop(result, sn, mrKind) ==
    IF result = <<>> THEN [items |-> <<>>, seen |-> sn]
    ELSE LET path == Head(result)
             norm == normalizePath(path)
             keep == mrKeep(norm, sn, params.dedup)
             sn1 == IF params.dedup /\ keep THEN sn \cup {norm} ELSE sn
             rest == mrLoop(Tail(result), sn1, mrKind)
             item == makeItem(path, mrKind, params.showSourcePrefix,
                              mrKind \in isDirKinds)
         IN  [items |-> IF keep THEN <<item>> \o rest.items ELSE rest.items,
              seen |-> rest.seen]

\* mutant: gatherMr lets the failure escape to start()
mrFailure_rethrow(s, outcome) == Catch(Fault(s), RpcErrorV)

\* gatherMr's catch block: console.error, return []; start() has nothing to
\* enqueue and goes on to step 3
mrFailure(s, outcome) ==
    StartRec([Fault(s) EXCEPT !.diag = Append(@,
                  IF outcome = "timeout" THEN "vim-mr" ELSE "mr-error")])

\* gatherMr after the dispatch settled, and the enqueue of its items.
\* outcome: "ok" (reply is the list), "timeout" (deadline's DOMException),
\* "error" (dispatch rejected), "malformed" (ensure threw)
gatherMr(s, mrKind, outcome, reply) ==
    IF outcome = "ok"
    THEN LET r == mrLoop(reply, s.seen, mrKind)
             s1 == Forward([s EXCEPT !.seen = r.seen, !.produced.mr = @ \o reply],
                           r.items)
         IN  IF Ended(s1) THEN s1 ELSE StartRec(s1)
    ELSE mrFailure(s, outcome)

\* gatherBuffer's dedup test
bufKeep(absPath, sn, dedup) == ~dedup \/ absPath \notin sn

\* what start() does with a failure of gatherBuffer
onBufferFailure(s) == Catch(s, RpcErrorV)

\* step 1 ends: bufItems is forwarded, then step 2
AfterBuffer(s) ==
    LET s1 == Forward([s EXCEPT !.bufItems = <<>>, !.sorted = <<>>], s.bufItems)
    IN  IF Ended(s1) THEN s1 ELSE StartMr(s1)

\* the for loop of gatherBuffer up to its next await: unnamed buffers are skipped
RECURSIVE bufLoop(_)
bufLoop(s) ==
    IF s.sorted = <<>> THEN AfterBuffer(s)
    ELSE IF Head(s.sorted).name = pEmpty
    THEN bufLoop([s EXCEPT !.sorted = Tail(@)])
    ELSE [s EXCEPT !.pc = "getbufvar"]

\* the comparator of the sort
cmp(a, b, orderby, bufNr) ==
    IF orderby = "desc"
    THEN IF a.bufnr = bufNr THEN 1
         ELSE IF b.bufnr = bufNr THEN -1
         ELSE b.lastused - a.lastused
    ELSE a.lastused - b.lastused

\* Array.prototype.sort (stable) under cmp
RECURSIVE insert(_, _, _, _)
insert(x, l, orderby, bufNr) ==
    IF l = <<>> THEN <<x>>
    ELSE IF cmp(Head(l), x, orderby, bufNr) > 0 THEN <<x>> \o l
    ELSE <<Head(l)>> \o insert(x, Tail(l), orderby, bufNr)

RECURSIVE sort(_, _, _)
sort(l, orderby, bufNr) ==
    IF l = <<>> THEN <<>>
    ELSE insert(l[Len(l)], sort(SubSeq(l, 1, Len(l) - 1), orderby, bufNr),
                orderby, bufNr)

\* buffers.filter((b) => b.listed)
RECURSIVE listedOnly(_)
listedOnly(l) ==
    IF l = <<>> THEN <<>>
    ELSE IF Head(l).listed THEN <<Head(l)>> \o listedOnly(Tail(l))
    ELSE listedOnly(Tail(l))

\* gatherBuffer after getbufinfo settled
getbufinfoStep(s, ok, buffers, orderby, bufNr) ==
    IF ~ok THEN onBufferFailure(Fault(s))
    ELSE bufLoop([s EXCEPT !.sorted = sort(listedOnly(buffers), orderby, bufNr),
                           !.bufItems = <<>>])

\* gatherBuffer after getbufvar settled for the first buffer of sorted
\* reply: the buftype, or "nonstring"; ok = FALSE: the call failed
getbufvarStep(s, ok, reply) ==
    LET buf == Head(s.sorted)
        bufType == IF reply = "nonstring" THEN "" ELSE reply
        absPath == normalizePath(buf.name)
        keep == bufKeep(absPath, s.seen, params.dedup)
        rest == [s EXCEPT !.sorted = Tail(@)]
    IN  IF ~ok THEN onBufferFailure(Fault(s))
        ELSE IF bufType = "terminal" THEN bufLoop(rest)
        ELSE LET s1 == [rest EXCEPT !.produced.buf = Append(@, buf.name)]
             IN  IF ~keep THEN bufLoop(s1)
                 ELSE bufLoop([s1 EXCEPT
                        !.seen = IF params.dedup THEN @ \cup {absPath} ELSE @,
                        !.bufItems = Append(@, makeItem(buf.name, "buf",
                                         params.showSourcePrefix, FALSE))])

\* if (enableBuffer) { await gatherBuffer(...) }
StartBuffer(s) ==
    IF params.enableBuffer THEN [Call(s, "buf") EXCEPT !.pc = "getbufinfo"]
    ELSE StartMr(s)

\* cancel(reason) { abortController.abort(reason) } on a readable stream
cancel(s, r) ==
    [s EXCEPT !.aborted = TRUE, !.reason = abortReason(r), !.streamState = "closed"]

\* ------------------------------------------------------------------ inputs
AllParams ==
    [enableBuffer : BOOLEAN, enableMr : BOOLEAN, enableFileRec : BOOLEAN,
     dedup : BOOLEAN, showSourcePrefix : BOOLEAN, chunkSize : 1..MaxChunk,
     expandSymbolicLink : BOOLEAN, tree : DOMAIN Trees]

\* the aggregation: every combination of sources over the smallest tree
AggParams == {p \in AllParams : p.tree = 1 /\ ~p.expandSymbolicLink}

\* the walk alone: every tree, with and without symlink expansion
WalkParams ==
    {p \in AllParams : ~p.enableBuffer /\ ~p.enableMr /\ p.enableFileRec
                          /\ p.tree < Len(Trees)}

\* the walk over the large flat directory, after an optional MRU step
GrowParams ==
    {p \in AllParams : ~p.enableBuffer /\ p.enableFileRec /\ ~p.showSourcePrefix
                          /\ ~p.expandSymbolicLink /\ p.tree = Len(Trees)}

BufNames == {pEmpty, pA, pASlash}
LastUsed == {1, 2}
BufInfo == [lastused : LastUsed, listed : BOOLEAN, name : BufNames]

\* the replies of getbufinfo: up to MaxBufs buffers, numbered from 1
BufReplies ==
    UNION {{[i \in 1..n |-> [bufnr |-> i, lastused |-> f[i].lastused,
                             listed |-> f[i].listed, name |-> f[i].name]]
            : f \in [1..n -> BufInfo]} : n \in 0..MaxBufs}

BufTypes == {"", "terminal", "nonstring"}

\* the empty string and a path that normalization changes
MrPaths == {pEmpty, pASlash}
MrReplies == UNION {[1..n -> MrPaths] : n \in 0..MaxMr}

\* ------------------------------------------------------------------ actions
InitWith(P) ==
    /\ pc = "init"
    /\ params \in P
    /\ seen = {}
    /\ delivered = <<>>
    /\ diag = <<>>
    /\ streamState = "readable"
    /\ closeState = "open"
    /\ aborted = FALSE
    /\ reason = NoReason
    /\ sorted = <<>>
    /\ bufItems = <<>>
    /\ stack = <<>>
    /\ pendingItems = <<>>
    /\ enqueueSize = 0
    /\ produced = [buf |-> <<>>, mr |-> <<>>, rec |-> <<>>]
    /\ yielded = <<>>
    /\ denied = {}
    /\ completed = {}
    /\ invoked = {}
    /\ late = {}
    /\ faults = 0

Init == InitWith(AggParams)

InitWalk == InitWith(WalkParams)

InitGrow == InitWith(GrowParams)

\* gather(): new ReadableStream runs start() up to its first await
Gather ==
    /\ pc = "init"
    /\ Set(StartBuffer(S))

\* denops.call("ddu#source#tri_source#getbufinfo") fails
GetBufInfoFails ==
    /\ pc = "getbufinfo"
    /\ faults < MaxFaults
    /\ Set(getbufinfoStep(S, FALSE, <<>>, "desc", 1))

\* denops.call("ddu#source#tri_source#getbufinfo") returns
GetBufInfo ==
    /\ pc = "getbufinfo"
    /\ \E buffers \in BufReplies, orderby \in {"asc", "desc"}, bufNr \in 1..MaxBufs :
           Set(getbufinfoStep(S, TRUE, buffers, orderby, bufNr))

\* denops.call("getbufvar", bufnr, "&buftype") fails
GetBufVarFails ==
    /\ pc = "getbufvar"
    /\ faults < MaxFaults
    /\ Set(getbufvarStep(S, FALSE, ""))

\* denops.call("getbufvar", bufnr, "&buftype") returns
GetBufVar ==
    /\ pc = "getbufvar"
    /\ \E reply \in BufTypes : Set(getbufvarStep(S, TRUE, reply))

\* denops.dispatch("mr", ...) under deadline and ensure fails
DispatchFails ==
    /\ pc = "dispatch"
    /\ faults < MaxFaults
    /\ \E mrKind \in MrKinds, outcome \in {"timeout", "error", "malformed"} :
           Set(gatherMr(S, mrKind, outcome, <<>>))

\* denops.dispatch("mr", ...) returns a list of strings
Dispatch ==
    /\ pc = "dispatch"
    /\ \E mrKind \in MrKinds, reply \in MrReplies :
           Set(gatherMr(S, mrKind, "ok", reply))

\* Deno.readDir fails
ReadDirFails ==
    /\ pc = "readDir"
    /\ faults < MaxFaults
    /\ \E outcome \in {"PermissionDenied", "Other"} : Set(readDirStep(S, outcome))

\* the next directory entry (or the end of the listing) arrives
ReadDir ==
    /\ pc = "readDir"
    /\ Set(readDirStep(S, "ok"))

\* Deno.lstat fails: the entry vanished
LstatFails ==
    /\ pc = "lstat"
    /\ faults < MaxFaults
    /\ Set(lstatStep(S, TRUE))

\* Deno.lstat returns the metadata of the current entry
Lstat ==
    /\ pc = "lstat"
    /\ Set(lstatStep(S, FALSE))

\* Deno.stat fails although the link has a target
StatFails ==
    /\ pc = "stat"
    /\ faults < MaxFaults
    /\ Set(statStep(S, TRUE))

\* Deno.stat settles as the filesystem has it
Stat ==
    /\ pc = "stat"
    /\ Set(statStep(S, FALSE))

\* Deno.realPath fails
RealPathFails ==
    /\ pc = "realPath"
    /\ faults < MaxFaults
    /\ \E outcome \in {"PermissionDenied", "Other"} : Set(realPathStep(S, outcome))

\* Deno.realPath returns the real path of the linked directory
RealPath ==
    /\ pc = "realPath"
    /\ Set(realPathStep(S, "ok"))

\* inner resumes after the end of its listing
LeftoverChunk ==
    /\ pc = "endOfDir"
    /\ Set(endOfDir(S))

\* the failure of the walk reaches the catch block of start()
WalkThrows ==
    /\ pc = "rethrow"
    /\ Set(Catch(S, FsErrorV))

\* walkFiles has returned: start() leaves its loop, flushes and closes
WalkReturns ==
    /\ pc = "walkEnd"
    /\ Set(FinishWalk(S))

\* the consumer cancels the stream: while start() is running, or after it has
\* ended with close requested and a delivered batch still unread (with nothing
\* left to read the stream is closed and cancel does nothing)
Cancel ==
    /\ pc # "init"
    /\ pc = "done" => (closeState = "requested" /\ delivered # <<>>)
    /\ streamState = "readable"
    /\ \E r \in CancelReasons : Set(cancel(S, r))

Next ==
    \/ Gather
    \/ GetBufInfoFails
    \/ GetBufInfo
    \/ GetBufVarFails
    \/ GetBufVar
    \/ DispatchFails
    \/ Dispatch
    \/ ReadDirFails
    \/ ReadDir
    \/ LstatFails
    \/ Lstat
    \/ LeftoverChunk
    \/ WalkThrows
    \/ WalkReturns
    \/ Cancel

Spec == Init /\ [][Next]_vars

\* the walk with the other two sources switched off
NextWalk ==
    \/ Gather
    \/ ReadDirFails
    \/ ReadDir
    \/ LstatFails
    \/ Lstat
    \/ StatFails
    \/ Stat
    \/ RealPathFails
    \/ RealPath
    \/ LeftoverChunk
    \/ WalkThrows
    \/ WalkReturns
    \/ Cancel

SpecWalk == InitWalk /\ [][NextWalk]_vars

\* the runs over the flat directory in which no call fails and the consumer
\* does not cancel (no link is met)
NextGrow ==
    \/ Gather
    \/ Dispatch
    \/ ReadDir
    \/ Lstat
    \/ LeftoverChunk
    \/ WalkReturns

SpecGrow == InitGrow /\ [][NextGrow]_vars

\* ======================================================================
\* Properties
\* ======================================================================
RECURSIVE Flatten(_)
Flatten(bs) == IF bs = <<>> THEN <<>> ELSE Head(bs) \o Flatten(Tail(bs))

\* the delivered items in delivery order
Items == Flatten(delivered)

\* the DedupKey of an item
Key(it) == normalizePath(it.path)

Keys(paths) == {normalizePath(paths[i]) : i \in DOMAIN paths}

\* the priority of the source that built an item: 1 open-document, 2 MRU, 3 walk
Rank(tag) == IF tag = "buf" THEN 1 ELSE IF tag = "rec" THEN 3 ELSE 2

\* the paths of the delivered items of one source, in delivery order
PathsOf(rank) ==
    LET FromRank(it) == Rank(it.tag) = rank
        all == Items
        its == SelectSeq(all, FromRank)
    IN  [i \in DOMAIN its |-> its[i].path]

Range(f) == {f[i] : i \in DOMAIN f}

\* C1: with dedup enabled no normalized path key occurs in two delivered items,
\* and a delivered item's key was not put forward by any earlier source in the
\* order open-document > MRU > recursive walk.
C1_DedupUnique ==
    params.dedup =>
        LET its == Items
            bufKeys == Keys(produced.buf)
            mrKeys == Keys(produced.mr)
        IN  /\ \A i, j \in DOMAIN its : i # j => Key(its[i]) # Key(its[j])
            /\ \A i \in DOMAIN its :
                  /\ Rank(its[i].tag) = 2 => Key(its[i]) \notin bufKeys
                  /\ Rank(its[i].tag) = 3 => Key(its[i]) \notin bufKeys \cup mrKeys

\* a run in which all three sources put forward the key /r/a and the only item
\* delivered for it is the open-document one
C1_Witness ==
    /\ params.dedup
    /\ pc = "done"
    /\ pA \in Keys(produced.buf) \cap Keys(produced.mr) \cap Keys(produced.rec)
    /\ \E i \in DOMAIN Items : Key(Items[i]) = pA /\ Items[i].tag = "buf"
    /\ \E i \in DOMAIN Items : Items[i].tag = "rec"

\* C2: with all three sources enabled, in delivery order every open-document
\* item precedes every MRU item and every MRU item precedes every walker item.
C2_PriorityOrder ==
    (params.enableBuffer /\ params.enableMr /\ params.enableFileRec) =>
        LET its == Items
        IN  \A i, j \in DOMAIN its : i < j => Rank(its[i].tag) <= Rank(its[j].tag)

\* a finished run that delivered items of all three sources
C2_Witness ==
    /\ pc = "done"
    /\ params.enableBuffer /\ params.enableMr /\ params.enableFileRec
    /\ {Rank(Items[i].tag) : i \in DOMAIN Items} = {1, 2, 3}

\* C3: with dedup disabled the registry stays empty for the whole run and
\* every delivered item carries its own source's provenance tag.
C3_AlwaysTagged ==
    ~params.dedup =>
        /\ seen = {}
        /\ \A i \in DOMAIN Items : Items[i].display = Items[i].tag

\* C4: a failure of the open-document adapter is reported and the enabled MRU
\* and recursive-walk adapters are still run.
C4_BufferFailureIsolated ==
    (pc = "done" /\ ~aborted /\ RpcErrorV.name \in Range(diag)) =>
        /\ params.enableMr => "mr" \in invoked
        /\ params.enableFileRec => "rec" \in invoked

\* C5: a dispatch that times out, fails or returns a malformed reply logs a
\* diagnostic, leaves the registry and the delivered batches as they were, and
\* start() goes on to call the walk when it is enabled (and otherwise ends
\* normally); unless the consumer had cancelled before, the failure is the
\* only diagnostic of the step and the walk is under way after it.
C5_MrFailureIsolated ==
    [][(pc = "dispatch" /\ faults' = faults + 1) =>
          /\ Len(diag') > Len(diag)
          /\ SubSeq(diag', 1, Len(diag)) = diag
          /\ diag'[Len(diag) + 1] \in {"vim-mr", "mr-error"}
          /\ seen' = seen
          /\ delivered' = delivered
          /\ IF params.enableFileRec
             THEN /\ "rec" \in invoked'
                  /\ ~aborted => /\ Len(diag') = Len(diag) + 1
                                 /\ pc' = "readDir"
                                 /\ closeState' = "open"
             ELSE pc' = "done" /\ closeState' # "open"]_vars

\* after a timed-out dispatch the walk ran and its items were delivered
C5_Witness ==
    /\ pc = "done"
    /\ "vim-mr" \in Range(diag)
    /\ PathsOf(3) # <<>>
    /\ closeState = "requested"

\* C6: once the signal is set no batch is added to the delivered batches, and
\* the batches delivered before stay as they were.
C6_NoDeliveryAfterCancel == [][aborted' => delivered' = delivered]_vars

\* a cancelled run that had delivered a batch and whose next enqueue was refused
C6_Witness ==
    /\ aborted
    /\ pc = "done"
    /\ delivered # <<>>
    /\ TypeErrorV.name \in Range(diag)

\* C7: a cancelled run in which nothing else failed reports no diagnostic.
C7_CancelSilent == (aborted /\ faults = 0) => diag = <<>>

\* C8: no adapter is called once the signal is set.
C8_NoLateAdapter == late = {}

\* the walk has raised a failure other than permission-denied
WalkFailing == pc = "rethrow" \/ (pc = "done" /\ FsErrorV.name \in Range(diag))

\* C9: when the walk raises a failure other than permission-denied, the
\* failure is the next diagnostic reported and start() then ends with the
\* stream closed (by controller.close(), or already by the consumer's cancel
\* when one arrived in between); from the failure on no batch is delivered and
\* the batches delivered before stay as they were.
C9_WalkFailureAborts ==
    [][/\ (pc # "rethrow" /\ pc' = "rethrow") =>
              /\ faults' = faults + 1
              /\ diag' = diag
              /\ closeState' = "open"
       /\ (pc = "rethrow" /\ pc' # "rethrow") =>
              /\ diag' = Append(diag, FsErrorV.name)
              /\ pc' = "done"
              /\ closeState' = IF aborted THEN "threw" ELSE "requested"
              /\ aborted => streamState' = "closed"
       /\ (WalkFailing \/ WalkFailing') => delivered' = delivered]_vars

\* a walk that failed after batches of all three sources had been delivered
C9_Witness ==
    /\ pc = "done"
    /\ FsErrorV.name \in Range(diag)
    /\ {Rank(Items[i].tag) : i \in DOMAIN Items} = {1, 2, 3}
    /\ closeState = "requested"

IsPrefix(a, b) == Len(a) <= Len(b) /\ SubSeq(b, 1, Len(a)) = a

\* the directory a path lies in
RECURSIVE Parent(_)
Parent(p) ==
    IF p = <<>> THEN <<>>
    ELSE IF p[Len(p)] = "/" THEN SubSeq(p, 1, Len(p) - 1)
    ELSE Parent(SubSeq(p, 1, Len(p) - 1))

Ancestors(D) == {A \in DOMAIN fs : A # D /\ IsPrefix(A \o <<"/">>, D)}

Siblings(D) ==
    IF Parent(D) \notin DOMAIN fs THEN {}
    ELSE {join(Parent(D), e.name) :
              e \in {x \in Range(fs[Parent(D)]) :
                        x.kind = "dir" /\ ~isIgnored(x.name)}} \ {D}

\* C10: when the only failures of a walk are permission-denied failures on
\* opening directories, the walk ends normally without a diagnostic, and every
\* regular file directly in an ancestor or in a sibling directory of a denied
\* directory (that was not itself denied) has been yielded.
C10_PermissionDeniedLocal ==
    (pc = "done" /\ ~aborted /\ faults = Cardinality(denied)) =>
        /\ stack = <<>>
        /\ diag = <<>>
        /\ \A D \in denied :
              \A A \in (Ancestors(D) \cup Siblings(D)) \ denied :
                  \A i \in DOMAIN fs[A] :
                      fs[A][i].kind = "file" =>
                          join(A, fs[A][i].name) \in Range(yielded)

\* /r/d was denied while /r/a was buffered in the root's chunk; /r/a, the
\* sibling's /r/s/c and the later /r/e were all yielded
C10_Witness ==
    /\ pc = "done"
    /\ params.tree = 2
    /\ params.chunkSize = 2
    /\ denied = {join(Root, <<"d">>)}
    /\ {pA, join(join(Root, <<"s">>), <<"c">>), join(Root, <<"e">>)}
           \subseteq Range(yielded)

\* the directory an entry of directory cur leads to
EntryReal(cur, name) ==
    LET e == CHOOSE x \in Range(fs[cur]) : x.name = name
    IN  IF e.kind = "link" THEN e.target ELSE join(cur, name)

\* the directories passed on the way from cur along the remaining characters
\* of a path; name collects the component being read
RECURSIVE RouteFrom(_, _, _)
RouteFrom(cur, rest, name) ==
    IF rest = <<>> THEN <<>>
    ELSE IF Head(rest) # "/" THEN RouteFrom(cur, Tail(rest), Append(name, Head(rest)))
    ELSE IF name = <<>> THEN RouteFrom(cur, Tail(rest), <<>>)
    ELSE LET next == EntryReal(cur, name)
         IN  <<next>> \o RouteFrom(next, Tail(rest), <<>>)

\* the directories a yielded path passes, from the root to the one holding it
Route(p) == <<Root>> \o RouteFrom(Root, SubSeq(p, Len(Root) + 1, Len(p)), <<>>)

\* a route that enters a directory it has already passed
Cyclic(route) == \E i, j \in DOMAIN route : i < j /\ route[i] = route[j]

\* C11: the walker never recurses into a directory it is already inside, and
\* no file is yielded over a route that passes a directory twice (which would
\* be a further yield of a file of the cyclic branch).
C11_CycleSafe ==
    /\ \A i, j \in DOMAIN stack : i < j => stack[i].real # stack[j].real
    /\ \A i \in DOMAIN yielded : ~Cyclic(Route(yielded[i]))

\* the delivered batches that hold walker items
IsRecBatch(b) == b # <<>> /\ b[1].tag = "rec"
RecBatches == SelectSeq(delivered, IsRecBatch)

\* the walked directory is flat and holds more than 10 * chunkSize files, and
\* the run has ended without failure or cancellation
FlatRunDone ==
    /\ pc = "done" /\ ~aborted /\ faults = 0
    /\ DOMAIN fs = {Root}
    /\ \A i \in DOMAIN fs[Root] : fs[Root][i].kind = "file"
    /\ Len(fs[Root]) > GrowthFactor * params.chunkSize

\* the first walker batch has at most chunkSize items, a later one has more
GrowthShape ==
    LET bs == RecBatches
    IN  /\ bs # <<>>
        /\ Len(bs[1]) <= params.chunkSize
        /\ \E k \in 2..Len(bs) : Len(bs[k]) > params.chunkSize

\* C12: over a flat directory of more than 10 * chunkSize files the first
\* walker batch delivered has at most chunkSize items and a later walker batch
\* has more.
C12_ChunkGrowthAlways == FlatRunDone => GrowthShape

\* a tree without symbolic links and without ignored directories
PlainTree ==
    \A D \in DOMAIN fs : \A i \in DOMAIN fs[D] :
        fs[D][i].kind \in {"file", "dir"} /\ ~isIgnored(fs[D][i].name)

\* the regular files of the tree
RegularFiles ==
    UNION {{join(D, fs[D][i].name) : i \in {k \in DOMAIN fs[D] : fs[D][k].kind = "file"}}
           : D \in DOMAIN fs}

\* C13: a walk over a plain tree that ended without failure or cancellation
\* has yielded every regular file of the tree exactly once and nothing else,
\* so no directory.
C13_WalkComplete ==
    (pc = "done" /\ ~aborted /\ faults = 0 /\ PlainTree) =>
        /\ Range(yielded) = RegularFiles
        /\ \A i, j \in DOMAIN yielded : i # j => yielded[i] # yielded[j]
        /\ Range(yielded) \cap DOMAIN fs = {}

\* the four files of the tree with two subdirectories, walked with chunkSize
\* 2, so that files of the root wait in its chunk while a subdirectory is walked
C13_Witness ==
    /\ pc = "done" /\ ~aborted /\ faults = 0
    /\ params.tree = 2
    /\ params.chunkSize = 2
    /\ Len(yielded) = 4
    /\ completed = DOMAIN fs

\* the names of the directories a path passes below the root
RECURSIVE DirNames(_, _)
DirNames(rest, name) ==
    IF rest = <<>> THEN {}
    ELSE IF Head(rest) # "/" THEN DirNames(Tail(rest), Append(name, Head(rest)))
    ELSE IF name = <<>> THEN DirNames(Tail(rest), <<>>)
    ELSE {name} \cup DirNames(Tail(rest), <<>>)

\* a path that lies inside a directory with an ignored name
InIgnored(p) ==
    DirNames(SubSeq(p, Len(Root) + 1, Len(p)), <<>>) \cap IgnoredDirectories # {}

\* directories that were listed to their end and hold an ignored directory
BesideIgnored ==
    {D \in completed \cap DOMAIN fs :
        \E i \in DOMAIN fs[D] : fs[D][i].kind = "dir" /\ isIgnored(fs[D][i].name)}

\* C14: no path inside a directory with an ignored name is ever yielded or
\* delivered, and when the run ends without failure or cancellation the
\* regular files next to an ignored directory have been delivered.
C14_IgnoredSkipped ==
    LET its == Items
    IN  /\ \A i \in DOMAIN yielded : ~InIgnored(yielded[i])
        /\ \A i \in DOMAIN its : ~InIgnored(its[i].path)
        /\ (pc = "done" /\ ~aborted /\ faults = 0) =>
               \A D \in BesideIgnored : \A i \in DOMAIN fs[D] :
                   fs[D][i].kind = "file" =>
                       \E k \in DOMAIN its : its[k].path = join(D, fs[D][i].name)

\* the ignored directory one level down was passed over with chunkSize 1:
\* two single-item batches, for /r/a and for /r/d/b next to the ignored one
C14_Witness ==
    /\ pc = "done" /\ ~aborted /\ faults = 0
    /\ params.tree = 5
    /\ params.chunkSize = 1
    /\ Len(delivered) = 2
    /\ Len(delivered[1]) = 1 /\ delivered[1][1].path = pA
    /\ Len(delivered[2]) = 1
    /\ delivered[2][1].path = join(join(Root, <<"d">>), <<"b">>)

\* C15: no delivered batch is empty.
C15_NoEmptyBatch == \A k \in DOMAIN delivered : delivered[k] # <<>>

\* with chunkSize 1 the MRU result and the walker's first chunk were both
\* emptied by dedup; neither was forwarded, and the run delivered exactly the
\* open-document batch and one walker batch
C15_Witness ==
    /\ pc = "done" /\ ~aborted /\ faults = 0
    /\ params.dedup
    /\ params.chunkSize = 1
    /\ produced.mr # <<>> /\ PathsOf(2) = <<>>
    /\ pA \in Range(produced.rec)
    /\ Len(delivered) = 2
    /\ delivered[1][1].tag = "buf" /\ delivered[2][1].tag = "rec"

\* the walk failed with something other than permission-denied
WalkFailed == FsErrorV.name \in Range(diag)

\* C16: whatever is still buffered when the walk ends is flushed, so that in a
\* run without cancellation no walker item that passed the dedup filter is
\* left in the buffer when start() has ended.
C16_NothingLeftUnlessCancelled == (pc = "done" /\ ~aborted) => pendingItems = <<>>

\* C17: once the signal is set the walker yields no further batch.
C17_NoYieldAfterCancel == [][aborted => yielded' = yielded]_vars

\* the entry whose metadata the walker is waiting for, and its path
CurEntry == fs[Top(S).real][Top(S).idx]
CurPath == join(Top(S).dir, CurEntry.name)

\* the real path of a symbolic link to a directory arrives
LinkedDirArrives ==
    /\ pc = "realPath" /\ pc' # "realPath"
    /\ faults' = faults
    /\ params.expandSymbolicLink
    /\ CurEntry.kind = "link" /\ CurEntry.tkind = "dir"
    /\ ~isIgnored(CurEntry.name)

\* C18: a directory reached via a symbolic link is skipped exactly when its
\* real path is a prefix of the path used to reach it, and is entered
\* otherwise.
C18_LoopIffPrefix ==
    [][LinkedDirArrives =>
          IF IsPrefix(CurEntry.target, CurPath)
          THEN stack' = stack
          ELSE Len(stack') = Len(stack) + 1]_vars

\* the paths whose items took part in dedup: the open-document names that
\* reached the registry test, every MRU path, every walker path
Participants == Range(produced.buf) \cup Range(produced.mr) \cup Range(produced.rec)

\* C19: with dedup enabled no item that takes part in dedup has an empty
\* actionPath.
C19_NonEmptyActionPath == params.dedup => pEmpty \notin Participants

\* C20: controller.close() is called only as start() ends, on a stream the
\* producer has not closed before; once it was called no batch is delivered
\* and it is not called again; and when start() ends in a run that was not
\* cancelled the call has succeeded, whether or not an adapter or the walk
\* had failed.
C20_ClosedOnce ==
    [][/\ closeState' # closeState => (closeState = "open" /\ pc' = "done")
       /\ closeState # "open" => (delivered' = delivered /\ closeState' = closeState)
       /\ (pc' = "done" /\ ~aborted') => closeState' = "requested"]_vars

\* a run closed after a walk failure that followed a delivered batch
C20_Witness ==
    /\ pc = "done" /\ ~aborted
    /\ closeState = "requested"
    /\ faults > 0
    /\ WalkFailed
    /\ delivered # <<>>

====
